---- MODULE Spec2Model ----
(***************************************************************************)
(* Drum inventory (src/app.py): the SQLite tables drums, grids,            *)
(* transactions and drum_history, the functions that write them, and the   *)
(* Streamlit handlers of qr_page and of the sidebar that call them.        *)
(*                                                                         *)
(* Every browser session runs the script with its own session_state and    *)
(* its own connection.  A SELECT issued outside a transaction reads the    *)
(* committed database; the statements from a function's first write to its *)
(* conn.commit() hold SQLite's database lock, so for every other           *)
(* connection they are one step.  An action below is therefore either one  *)
(* SELECT (with the Python that follows it up to the next statement) or    *)
(* one write transaction.                                                  *)
(*                                                                         *)
(* A widget's value (the drum id, the form's fields, the reset checkbox,    *)
(* the selectbox) is sent with the run that reads it: it is an input of    *)
(* the handler.  session_state keeps what the script stores there.         *)
(*                                                                         *)
(* Left out: the LastUpdated / Timestamp columns (datetime.now(), read by  *)
(* no statement), the page radio and the dashboard (read only), the camera *)
(* and QR decoding, last_drum_details (it only pre-fills the form), and    *)
(* the flags adding_drum, shift_mode / shift_drum_id and shift_all_mode /  *)
(* shift_all_grid: each only decides whether a Confirm or Place button is  *)
(* drawn, the tap that sets it is possible whenever the button's other     *)
(* conditions hold, and the handler clears it, so the handlers that can    *)
(* run and the tables they leave are the same with and without them.       *)
(***************************************************************************)
EXTENDS Integers, Sequences, FiniteSets, TLC

VARIABLES drums, grids, transactions, drum_history, sqlite_sequence,
          session_state, frame, resets

vars == <<drums, grids, transactions, drum_history, sqlite_sequence,
          session_state, frame, resets>>

(***************************************************************************)
(* Bounds of the model.                                                    *)
(***************************************************************************)
NumGrids == 2
NumDrums == 2
NumSessions == 3
MaxResets == 1

\* one session (SpecSeq): handlers that write, batch sizes offered, form
\* contents, drum ids typed, grids tapped for a placement
MaxTxn == 4
MaxBatch == 2
NumMeta == 2

SeqBounds == [txn |-> MaxTxn, batch |-> MaxBatch, meta |-> NumMeta,
              drums |-> NumDrums,
              grids |-> NumGrids]

\* two sessions side by side (Spec)
ConcSessions == 2
ConcTxn == 3
ConcBatch == 1
ConcMeta == 2

ConcBounds == [txn |-> ConcTxn, batch |-> ConcBatch, meta |-> ConcMeta,
               drums |-> NumDrums,
              grids |-> NumGrids]

\* three sessions side by side, one drum (SpecRace)
RaceTxn == 4
RaceDrums == 1
RacePicks == 1

RaceBounds == [txn |-> RaceTxn, batch |-> 1, meta |-> 1, drums |-> RaceDrums,
               grids |-> RacePicks]

(***************************************************************************)
(* Identifiers.                                                            *)
(***************************************************************************)
NumCols == 3

RowLetters == <<"A", "B", "C">>

Digits == <<"1", "2", "3", "4", "5", "6", "7", "8", "9">>

\* f"{row}{col}" for the i-th grid in the order of the two loops
GridName(i) == RowLetters[((i - 1) \div NumCols) + 1] \o Digits[((i - 1) % NumCols) + 1]

\* the grids the model seeds: the first NumGrids of A1..C3
SeedGrids == {GridName(i) : i \in 1..NumGrids}

\* f"D00{i}"
DrumName(i) == "D00" \o Digits[i]

DrumIDs == {DrumName(i) : i \in 1..NumDrums}

Sessions == 1..NumSessions

\* Python's None and SQL's NULL
NULL == "NULL"

\* the four text inputs of the placement form, filled in
Meta(i) == [OrderNo |-> "O" \o Digits[i], RA |-> "R" \o Digits[i],
            Quantity |-> Digits[i] \o "0", CellType |-> "Type" \o Digits[i]]

\* the form as the operator may submit it: filled in, or with a field left empty
MetaInputs(n) == {Meta(i) : i \in 1..n} \cup {[Meta(1) EXCEPT !.RA = ""]}

\* what the operator may type as a drum id: one of the first n ids, or nothing
DrumIDInputs(n) == {DrumName(i) : i \in 1..n} \cup {""}

(***************************************************************************)
(* The database as a value, and the SQL statements as operators on it.     *)
(***************************************************************************)
DB == [drums |-> drums, grids |-> grids, transactions |-> transactions,
       drum_history |-> drum_history, sqlite_sequence |-> sqlite_sequence]

Commit(D) ==
    /\ drums' = D.drums
    /\ grids' = D.grids
    /\ transactions' = D.transactions
    /\ drum_history' = D.drum_history
    /\ sqlite_sequence' = D.sqlite_sequence

NoWrite == UNCHANGED <<drums, grids, transactions, drum_history, sqlite_sequence>>

\* the rows INSERT OR IGNORE seeds, all 'Available'
seed_grids == [g \in SeedGrids |-> "Available"]

\* SELECT * FROM grids
get_all_grids(D) == D.grids

\* SELECT * FROM grids WHERE Status='Available' (its GridID column)
get_available_grids(D) == {g \in DOMAIN D.grids : D.grids[g] = "Available"}

\* SELECT * FROM drums WHERE DrumID = ?: a frame of no row or one row
get_drum(D, drum_id) ==
    IF drum_id \in DOMAIN D.drums THEN {D.drums[drum_id]} ELSE {}

\* drum.iloc[0]
Row0(df) == CHOOSE r \in df : TRUE

\* SELECT * FROM drums WHERE CurrentGrid = ? AND Status = 'IN' (its DrumID column);
\* CurrentGrid = NULL is true of no row
get_drums_by_grid(D, grid_id) ==
    IF grid_id = NULL THEN {}
    ELSE {d \in DOMAIN D.drums :
             D.drums[d].CurrentGrid = grid_id /\ D.drums[d].Status = "IN"}

\* a slip: INSERT OR REPLACE in place of the UPDATE
UpdateGrid_upsert(D, grid_id, status) ==
    [D EXCEPT !.grids = (grid_id :> status) @@ @]

\* UPDATE grids SET Status = ? WHERE GridID = ?
UpdateGrid(D, grid_id, status) ==
    IF grid_id \in DOMAIN D.grids
    THEN [D EXCEPT !.grids[grid_id] = status]
    ELSE D

\* a slip: the INSERT is left out
InsertTransaction_none(D, drum_id, grid_id, status) == D

\* INSERT INTO transactions (DrumID, GridID, Status, Timestamp); TxnID is
\* INTEGER PRIMARY KEY AUTOINCREMENT: one more than the largest ever used
InsertTransaction(D, drum_id, grid_id, status) ==
    LET id == D.sqlite_sequence.transactions + 1
    IN [D EXCEPT !.transactions = Append(@, [TxnID |-> id, DrumID |-> drum_id,
                                             GridID |-> grid_id, Status |-> status]),
                 !.sqlite_sequence.transactions = id]

\* a slip: the INSERT is left out
InsertHistory_none(D, drum_id, row, grid_id) == D

\* INSERT INTO drum_history (...) VALUES (drum_id, the row read, 'OUT', grid_id, now)
InsertHistory(D, drum_id, row, grid_id) ==
    LET id == D.sqlite_sequence.drum_history + 1
    IN [D EXCEPT !.drum_history = Append(@, [HistID |-> id, DrumID |-> drum_id,
                                             OrderNo |-> row.OrderNo, RA |-> row.RA,
                                             Quantity |-> row.Quantity,
                                             CellType |-> row.CellType,
                                             Status |-> "OUT", GridID |-> grid_id]),
                 !.sqlite_sequence.drum_history = id]

\* INSERT OR REPLACE INTO drums ... VALUES (drum_id, ..., 'OUT', None, now)
insert_drum(D, drum_id, m) ==
    [D EXCEPT !.drums = (drum_id :> [OrderNo |-> m.OrderNo, RA |-> m.RA,
                                     Quantity |-> m.Quantity, CellType |-> m.CellType,
                                     Status |-> "OUT", CurrentGrid |-> NULL]) @@ @]

\* a slip: the UPDATE leaves the OrderNo the row had
update_drum_info_keeps(D, drum_id, m) ==
    IF drum_id \in DOMAIN D.drums
    THEN [D EXCEPT !.drums[drum_id] = [OrderNo |-> @.OrderNo, RA |-> m.RA,
                                       Quantity |-> m.Quantity, CellType |-> m.CellType,
                                       Status |-> "OUT", CurrentGrid |-> NULL]]
    ELSE D

\* UPDATE drums SET OrderNo=?, RA=?, Quantity=?, CellType=?, Status='OUT',
\* CurrentGrid=NULL WHERE DrumID=?
update_drum_info(D, drum_id, m) ==
    IF drum_id \in DOMAIN D.drums
    THEN [D EXCEPT !.drums[drum_id] = [OrderNo |-> m.OrderNo, RA |-> m.RA,
                                       Quantity |-> m.Quantity, CellType |-> m.CellType,
                                       Status |-> "OUT", CurrentGrid |-> NULL]]
    ELSE D

\* the two UPDATEs and the INSERT of update_drum_in, committed together
update_drum_in(D, drum_id, grid_id) ==
    LET D1 == IF drum_id \in DOMAIN D.drums
              THEN [D EXCEPT !.drums[drum_id].Status = "IN",
                             !.drums[drum_id].CurrentGrid = grid_id]
              ELSE D
        D2 == UpdateGrid(D1, grid_id, "Occupied")
    IN InsertTransaction(D2, drum_id, grid_id, "IN")

(***************************************************************************)
(* Session state and the running handler of each session.                  *)
(***************************************************************************)
\* state_defaults of qr_page
state_defaults ==
    [batch_in_count |-> 1, batch_in_placed |-> 0, batch_in_grid |-> NULL,
     placement_mode |-> FALSE]

NoMeta == [OrderNo |-> "", RA |-> "", Quantity |-> "", CellType |-> ""]

\* no script run in progress
Idle == [pc |-> "idle", op |-> "", drum_id |-> "", drum |-> {}, grid_id |-> NULL,
         new_grid |-> NULL, todo |-> {}, free_old |-> FALSE, meta |-> NoMeta,
         rets |-> <<>>, msg |-> "", reset_confirm |-> FALSE, epoch |-> 0]

\* the sessions whose running handler has a write transaction ahead of it
Writing == {s \in Sessions : frame[s].pc \notin {"idle", "done"}}

\* a handler that writes starts only while fewer than cap handlers have logged
\* a row or are about to
Room(cap) == sqlite_sequence.transactions + Cardinality(Writing) < cap

Init ==
    /\ drums = << >>
    /\ grids = seed_grids
    /\ transactions = << >>
    /\ drum_history = << >>
    /\ sqlite_sequence = [transactions |-> 0, drum_history |-> 0]
    /\ session_state = [s \in Sessions |-> state_defaults]
    /\ frame = [s \in Sessions |-> Idle]
    /\ resets = 0

(***************************************************************************)
(* Placement (qr_page, lines 253-373).                                     *)
(***************************************************************************)
\* the buttons 1, 2, 3 shown while no placement is under way
pick_batch(s, n) ==
    /\ frame[s].pc = "idle"
    /\ ~session_state[s].placement_mode
    /\ session_state' = [session_state EXCEPT ![s].batch_in_count = n,
                                              ![s].batch_in_placed = 0,
                                              ![s].placement_mode = TRUE,
                                              ![s].batch_in_grid = NULL]
    /\ NoWrite
    /\ UNCHANGED <<frame, resets>>

\* a grid's button is drawn, and can be tapped, only if the grid reads 'Available'
pick_grid(s, g) ==
    /\ frame[s].pc = "idle"
    /\ session_state[s].placement_mode
    /\ session_state[s].batch_in_grid = NULL
    /\ g \in DOMAIN get_all_grids(DB)
    /\ get_all_grids(DB)[g] = "Available"
    /\ session_state' = [session_state EXCEPT ![s].batch_in_grid = g]
    /\ NoWrite
    /\ UNCHANGED <<frame, resets>>

\* the form is reached once a grid is selected
FormShown(s) ==
    /\ session_state[s].placement_mode
    /\ session_state[s].batch_in_grid # NULL

\* not drum_id or not all([order_no, ra, quantity, cell_type])
FormIncomplete(drum_id, m) ==
    \/ drum_id = ""
    \/ m.OrderNo = "" \/ m.RA = "" \/ m.Quantity = "" \/ m.CellType = ""

\* "IN / Place Drum in Grid": the form is checked and the drum looked up
place_click(s, drum_id, m, cap) ==
    /\ frame[s].pc = "idle"
    /\ FormShown(s)
    /\ IF FormIncomplete(drum_id, m)
       THEN frame' = [frame EXCEPT ![s] = [Idle EXCEPT !.pc = "done", !.op = "place",
                                                       !.msg = "warning"]]
       ELSE /\ Room(cap)
            /\ frame' = [frame EXCEPT ![s] = [Idle EXCEPT !.pc = "place_meta",
                                                          !.op = "place",
                                                          !.drum_id = drum_id,
                                                          !.meta = m,
                                                          !.drum = get_drum(DB, drum_id),
                                                          !.epoch = resets]]
    /\ NoWrite
    /\ UNCHANGED <<session_state, resets>>

\* insert_drum for a drum read as absent, update_drum_info otherwise; committed
place_meta(s) ==
    /\ frame[s].pc = "place_meta"
    /\ Commit(IF frame[s].drum = {}
              THEN insert_drum(DB, frame[s].drum_id, frame[s].meta)
              ELSE update_drum_info(DB, frame[s].drum_id, frame[s].meta))
    /\ frame' = [frame EXCEPT ![s].pc = "place_in"]
    /\ UNCHANGED <<session_state, resets>>

\* update_drum_in on the selected grid, then the batch bookkeeping and the rerun
place_in(s) ==
    /\ frame[s].pc = "place_in"
    /\ Commit(update_drum_in(DB, frame[s].drum_id, session_state[s].batch_in_grid))
    /\ LET placed == session_state[s].batch_in_placed + 1
       IN session_state' =
            IF placed >= session_state[s].batch_in_count
            THEN [session_state EXCEPT ![s].placement_mode = FALSE,
                                       ![s].batch_in_placed = 0,
                                       ![s].batch_in_grid = NULL]
            ELSE [session_state EXCEPT ![s].batch_in_placed = placed]
    /\ frame' = [frame EXCEPT ![s] = Idle]
    /\ UNCHANGED resets

(***************************************************************************)
(* Removal and shift (update_drum_out, batch_out_drums, shift_drum_grid,   *)
(* batch_shift_drums and the lower half of qr_page, lines 376-461).        *)
(***************************************************************************)
\* the lower half of the page is drawn unless st.stop() ended the run at the
\* grid selection, and its buttons only for a drum id that is entered
LowerShown(s, drum_id) ==
    /\ ~(session_state[s].placement_mode /\ session_state[s].batch_in_grid = NULL)
    /\ drum_id # ""

\* not drum.empty and drum.iloc[0]['Status'] == 'IN'
ShownAsIn(df) == df # {} /\ Row0(df).Status = "IN"

\* drum.empty or drum.iloc[0]['CurrentGrid'] is None
NothingToMove(df) == df = {} \/ Row0(df).CurrentGrid = NULL

\* a slip: a removal never frees the grid
out_frees_grid_never(other_in) == FALSE

\* len(other_in) <= 1 in update_drum_out
out_frees_grid(other_in) == Cardinality(other_in) <= 1

\* a slip in the threshold: the old grid is freed with two drums on it
shift_frees_grid_two(other_drums) == Cardinality(other_drums) <= 2

\* len(other_drums) <= 1 in shift_drum_grid
shift_frees_grid(other_drums) == Cardinality(other_drums) <= 1

\* what a call of update_drum_out or shift_drum_grid returned, for its drum
Ret(drum_id, ok) == [DrumID |-> drum_id, ok |-> ok]

\* the caller's loop: the next drum of the list, or the end of the handler
AfterCall(f, drum_id, ok, pc_next) ==
    LET left == f.todo \ {drum_id}
    IN [f EXCEPT !.todo = left,
                 !.rets = Append(@, Ret(drum_id, ok)),
                 !.drum_id = "",
                 !.drum = {},
                 !.free_old = FALSE,
                 !.pc = IF left = {} THEN "done" ELSE pc_next,
                 !.msg = IF left = {} THEN "success" ELSE ""]

\* "Remove this Drum Only": the page reads the drum and finds it IN
remove_click(s, drum_id, cap) ==
    /\ frame[s].pc = "idle"
    /\ LowerShown(s, drum_id)
    /\ ShownAsIn(get_drum(DB, drum_id))
    /\ Room(cap)
    /\ frame' = [frame EXCEPT ![s] = [Idle EXCEPT !.pc = "out_get",
                                                  !.op = "remove",
                                                  !.todo = {drum_id},
                                                  !.epoch = resets]]
    /\ NoWrite
    /\ UNCHANGED <<session_state, resets>>

\* "Remove ALL Drums from this Grid": drawn when the drum's grid holds several
remove_all_click(s, drum_id, cap) ==
    /\ frame[s].pc = "idle"
    /\ LowerShown(s, drum_id)
    /\ ShownAsIn(get_drum(DB, drum_id))
    /\ Cardinality(get_drums_by_grid(DB, Row0(get_drum(DB, drum_id)).CurrentGrid)) > 1
    /\ Room(cap)
    /\ frame' = [frame EXCEPT ![s] = [Idle EXCEPT !.pc = "out_list",
                                                  !.op = "remove_all",
                                                  !.grid_id = Row0(get_drum(DB, drum_id)).CurrentGrid,
                                                  !.epoch = resets]]
    /\ NoWrite
    /\ UNCHANGED <<session_state, resets>>

\* batch_out_drums: drums = get_drums_by_grid(conn, grid_id)
batch_out_list(s) ==
    /\ frame[s].pc = "out_list"
    /\ LET drums_df == get_drums_by_grid(DB, frame[s].grid_id)
       IN frame' = [frame EXCEPT ![s].todo = drums_df,
                                 ![s].pc = IF drums_df = {} THEN "done" ELSE "out_get",
                                 ![s].msg = IF drums_df = {} THEN "success" ELSE ""]
    /\ NoWrite
    /\ UNCHANGED <<session_state, resets>>

\* update_drum_out, lines 105-108: the drum is read; False if there is nothing to remove
update_drum_out_read(s, drum_id) ==
    /\ frame[s].pc = "out_get"
    /\ drum_id \in frame[s].todo
    /\ LET drum == get_drum(DB, drum_id)
       IN frame' = [frame EXCEPT ![s] =
                      IF NothingToMove(drum)
                      THEN AfterCall(frame[s], drum_id, FALSE, "out_get")
                      ELSE [frame[s] EXCEPT !.pc = "out_write",
                                            !.drum_id = drum_id,
                                            !.drum = drum]]
    /\ NoWrite
    /\ UNCHANGED <<session_state, resets>>

\* a slip: the UPDATE of line 118 leaves OrderNo as it is
update_drum_out_tx_keeps(D, drum_id, row) ==
    LET grid_id == row.CurrentGrid
        D1 == InsertHistory(D, drum_id, row, grid_id)
        D2 == IF drum_id \in DOMAIN D1.drums
              THEN [D1 EXCEPT !.drums[drum_id] =
                      [OrderNo |-> @.OrderNo, RA |-> NULL, Quantity |-> NULL,
                       CellType |-> NULL, Status |-> "OUT", CurrentGrid |-> NULL]]
              ELSE D1
        other_in == get_drums_by_grid(D2, grid_id)
        D3 == IF out_frees_grid(other_in) THEN UpdateGrid(D2, grid_id, "Available") ELSE D2
    IN InsertTransaction(D3, drum_id, grid_id, "OUT")

\* update_drum_out, lines 110-123, on the row read at line 105
update_drum_out_tx(D, drum_id, row) ==
    LET grid_id == row.CurrentGrid
        D1 == InsertHistory(D, drum_id, row, grid_id)
        D2 == IF drum_id \in DOMAIN D1.drums
              THEN [D1 EXCEPT !.drums[drum_id] =
                      [OrderNo |-> NULL, RA |-> NULL, Quantity |-> NULL,
                       CellType |-> NULL, Status |-> "OUT", CurrentGrid |-> NULL]]
              ELSE D1
        other_in == get_drums_by_grid(D2, grid_id)
        D3 == IF out_frees_grid(other_in) THEN UpdateGrid(D2, grid_id, "Available") ELSE D2
    IN InsertTransaction(D3, drum_id, grid_id, "OUT")

\* update_drum_out, lines 110-125: the write transaction; True
update_drum_out_write(s) ==
    /\ frame[s].pc = "out_write"
    /\ Commit(update_drum_out_tx(DB, frame[s].drum_id, Row0(frame[s].drum)))
    /\ frame' = [frame EXCEPT ![s] = AfterCall(frame[s], frame[s].drum_id, TRUE, "out_get")]
    /\ UNCHANGED <<session_state, resets>>

\* "Confirm Shift": the page reads the drum and finds it IN
shift_click(s, drum_id, cap) ==
    /\ frame[s].pc = "idle"
    /\ LowerShown(s, drum_id)
    /\ ShownAsIn(get_drum(DB, drum_id))
    /\ Room(cap)
    /\ frame' = [frame EXCEPT ![s] = [Idle EXCEPT !.pc = "shift_choose",
                                                  !.op = "shift",
                                                  !.todo = {drum_id},
                                                  !.epoch = resets]]
    /\ NoWrite
    /\ UNCHANGED <<session_state, resets>>

\* the selectbox over get_available_grids: one of its options, None if it has none
Selected(choices) == IF choices = {} THEN {NULL} ELSE choices

\* lines 423-425 (446-448 for the whole grid): the destination is selected
shift_choose(s, new_grid) ==
    /\ frame[s].pc = "shift_choose"
    /\ new_grid \in Selected(get_available_grids(DB))
    /\ frame' = [frame EXCEPT ![s].new_grid = new_grid,
                              ![s].pc = IF frame[s].op = "shift_all"
                                        THEN "shift_list" ELSE "shift_get"]
    /\ NoWrite
    /\ UNCHANGED <<session_state, resets>>

\* "Confirm ALL Shift"
shift_all_click(s, drum_id, cap) ==
    /\ frame[s].pc = "idle"
    /\ LowerShown(s, drum_id)
    /\ ShownAsIn(get_drum(DB, drum_id))
    /\ Cardinality(get_drums_by_grid(DB, Row0(get_drum(DB, drum_id)).CurrentGrid)) > 1
    /\ Room(cap)
    /\ frame' = [frame EXCEPT ![s] = [Idle EXCEPT !.pc = "shift_choose",
                                                  !.op = "shift_all",
                                                  !.grid_id = Row0(get_drum(DB, drum_id)).CurrentGrid,
                                                  !.epoch = resets]]
    /\ NoWrite
    /\ UNCHANGED <<session_state, resets>>

\* batch_shift_drums: drums = get_drums_by_grid(conn, old_grid_id)
batch_shift_list(s) ==
    /\ frame[s].pc = "shift_list"
    /\ LET drums_df == get_drums_by_grid(DB, frame[s].grid_id)
       IN frame' = [frame EXCEPT ![s].todo = drums_df,
                                 ![s].pc = IF drums_df = {} THEN "done" ELSE "shift_get",
                                 ![s].msg = IF drums_df = {} THEN "success" ELSE ""]
    /\ NoWrite
    /\ UNCHANGED <<session_state, resets>>

\* shift_drum_grid, lines 134-136: the drum is read; False if there is nothing to move
shift_drum_grid_read(s, drum_id) ==
    /\ frame[s].pc = "shift_get"
    /\ drum_id \in frame[s].todo
    /\ LET drum == get_drum(DB, drum_id)
       IN frame' = [frame EXCEPT ![s] =
                      IF NothingToMove(drum)
                      THEN AfterCall(frame[s], drum_id, FALSE, "shift_get")
                      ELSE [frame[s] EXCEPT !.pc = "shift_others",
                                            !.drum_id = drum_id,
                                            !.drum = drum]]
    /\ NoWrite
    /\ UNCHANGED <<session_state, resets>>

\* shift_drum_grid, lines 138-140: the drums on the old grid are counted
shift_drum_grid_others(s) ==
    /\ frame[s].pc = "shift_others"
    /\ frame' = [frame EXCEPT
                   ![s].free_old = shift_frees_grid(
                       get_drums_by_grid(DB, Row0(frame[s].drum).CurrentGrid)),
                   ![s].pc = "shift_write"]
    /\ NoWrite
    /\ UNCHANGED <<session_state, resets>>

\* a slip: the old grid is freed whatever line 140 found
shift_drum_grid_tx_frees(D, drum_id, old_grid, free_old, new_grid_id) ==
    LET D1 == UpdateGrid(D, old_grid, "Available")
        D2 == IF drum_id \in DOMAIN D1.drums
              THEN [D1 EXCEPT !.drums[drum_id].CurrentGrid = new_grid_id]
              ELSE D1
        D3 == UpdateGrid(D2, new_grid_id, "Occupied")
    IN InsertTransaction(D3, drum_id, new_grid_id, "SHIFT")

\* shift_drum_grid, lines 141-145, on what lines 134-140 read
shift_drum_grid_tx(D, drum_id, old_grid, free_old, new_grid_id) ==
    LET D1 == IF free_old THEN UpdateGrid(D, old_grid, "Available") ELSE D
        D2 == IF drum_id \in DOMAIN D1.drums
              THEN [D1 EXCEPT !.drums[drum_id].CurrentGrid = new_grid_id]
              ELSE D1
        D3 == UpdateGrid(D2, new_grid_id, "Occupied")
    IN InsertTransaction(D3, drum_id, new_grid_id, "SHIFT")

\* shift_drum_grid, lines 141-147: the write transaction; True
shift_drum_grid_write(s) ==
    /\ frame[s].pc = "shift_write"
    /\ Commit(shift_drum_grid_tx(DB, frame[s].drum_id, Row0(frame[s].drum).CurrentGrid,
                                 frame[s].free_old, frame[s].new_grid))
    /\ frame' = [frame EXCEPT ![s] = AfterCall(frame[s], frame[s].drum_id, TRUE, "shift_get")]
    /\ UNCHANGED <<session_state, resets>>

\* the script run ends: st.success and st.experimental_rerun or st.stop (the end
\* of the page after a warning)
finish(s) ==
    /\ frame[s].pc = "done"
    /\ frame' = [frame EXCEPT ![s] = Idle]
    /\ NoWrite
    /\ UNCHANGED <<session_state, resets>>

(***************************************************************************)
(* The sidebar (lines 166-180).                                            *)
(***************************************************************************)
\* a slip: the handler also clears the AUTOINCREMENT counters
reset_tx_counters(D) ==
    [D EXCEPT !.drums = << >>,
              !.grids = seed_grids,
              !.transactions = << >>,
              !.drum_history = << >>,
              !.sqlite_sequence = [transactions |-> 0, drum_history |-> 0]]

\* the four DELETEs and the INSERT OR IGNOREs, committed together;
\* sqlite_sequence is not a table the handler deletes from
reset_tx(D) ==
    [D EXCEPT !.drums = << >>,
              !.grids = seed_grids,
              !.transactions = << >>,
              !.drum_history = << >>]

\* a slip: the button is never disabled
reset_enabled_always(reset_confirm) == TRUE

\* st.button(..., disabled=not reset_confirm): a tap reaches the script only
\* with the checkbox ticked
reset_enabled(reset_confirm) == reset_confirm

\* "Reset All Data"
reset_click(s, reset_confirm) ==
    /\ frame[s].pc = "idle"
    /\ reset_enabled(reset_confirm)
    /\ resets < MaxResets
    /\ Commit(reset_tx(DB))
    /\ resets' = resets + 1
    /\ frame' = [frame EXCEPT ![s] = [Idle EXCEPT !.pc = "done", !.op = "reset",
                                                  !.msg = "success",
                                                  !.reset_confirm = reset_confirm]]
    /\ UNCHANGED session_state

\* placing, removing and shifting one drum
StepSingle(s, B) ==
    \/ \E n \in 1..B.batch : pick_batch(s, n)
    \/ \E g \in {GridName(i) : i \in 1..B.grids} : pick_grid(s, g)
    \/ \E d \in DrumIDInputs(B.drums), m \in MetaInputs(B.meta) :
          place_click(s, d, m, B.txn)
    \/ place_meta(s)
    \/ place_in(s)
    \/ \E d \in DrumIDInputs(B.drums) : remove_click(s, d, B.txn)
    \/ \E d \in DrumIDs : update_drum_out_read(s, d)
    \/ update_drum_out_write(s)
    \/ \E d \in DrumIDInputs(B.drums) : shift_click(s, d, B.txn)
    \/ \E g \in SeedGrids \cup {NULL} : shift_choose(s, g)
    \/ \E d \in DrumIDs : shift_drum_grid_read(s, d)
    \/ shift_drum_grid_others(s)
    \/ shift_drum_grid_write(s)
    \/ finish(s)

\* the handlers for a whole grid, and the sidebar
StepRest(s, B) ==
    \/ \E d \in DrumIDInputs(B.drums) : remove_all_click(s, d, B.txn)
    \/ batch_out_list(s)
    \/ \E d \in DrumIDInputs(B.drums) : shift_all_click(s, d, B.txn)
    \/ batch_shift_list(s)
    \/ \E c \in BOOLEAN : reset_click(s, c)

Step(s, B) == StepSingle(s, B) \/ StepRest(s, B)

\* two sessions run side by side
Next == \E s \in 1..ConcSessions : Step(s, ConcBounds)

Spec == Init /\ [][Next]_vars

\* one session: the handlers run one after the other
NextSeq == Step(1, SeqBounds)

SpecSeq == Init /\ [][NextSeq]_vars

\* three sessions place, remove and shift one drum side by side
NextRace == \E s \in Sessions : StepSingle(s, RaceBounds)

SpecRace == Init /\ [][NextRace]_vars

(***************************************************************************)
(* Properties.                                                             *)
(***************************************************************************)
\* no script run is under way: the state lies between completed operations
Quiet == \A s \in Sessions : frame[s].pc \in {"idle", "done"}

\* the session that takes the step
Acts(s) == frame'[s] # frame[s]

Written ==
    <<drums', grids', transactions', drum_history'>> #
        <<drums, grids, transactions, drum_history>>

\* the drums that are IN on grid g after the step
InOnAfter(g) ==
    {d \in DOMAIN drums' : drums'[d].CurrentGrid = g /\ drums'[d].Status = "IN"}

CountRows(log, d, status) ==
    Cardinality({i \in 1..Len(log) : log[i].DrumID = d /\ log[i].Status = status})

\* C1: between completed operations a grid is 'Occupied' exactly if some drum is
\* IN on it, and 'Available' exactly if none is
C1_GridOccupancy ==
    Quiet => \A g \in DOMAIN grids :
                /\ grids[g] = "Occupied" <=> get_drums_by_grid(DB, g) # {}
                /\ grids[g] = "Available" <=> get_drums_by_grid(DB, g) = {}

\* C2: between completed operations a drum is IN exactly if its CurrentGrid is set
C2_DrumLocation ==
    Quiet => \A d \in DOMAIN drums :
                drums[d].Status = "IN" <=> drums[d].CurrentGrid # NULL

\* C3: a removal leaves the vacated grid 'Occupied' while another drum is still
\* IN on it, so that a batch removal frees the grid only with its last drum
C3_GridFreedLast ==
    [][\A s \in Sessions :
          (frame[s].pc = "out_write" /\ Acts(s))
          => LET g == Row0(frame[s].drum).CurrentGrid
             IN (g \in DOMAIN grids' /\ InOnAfter(g) # {}) => grids'[g] = "Occupied"]_vars

\* C4: a placement is one write: a commit that puts the form's values into a drum
\* row also leaves the drum IN on a grid that is 'Occupied', with its IN row logged
C4_PlacementAtomic ==
    [][\A d \in DOMAIN drums' :
          (/\ drums'[d].OrderNo # NULL
           /\ (d \notin DOMAIN drums \/ drums[d] # drums'[d])
           /\ (d \in DOMAIN drums => drums[d].Status # "IN"))
          => /\ drums'[d].Status = "IN"
             /\ drums'[d].CurrentGrid \in DOMAIN grids'
             /\ grids'[drums'[d].CurrentGrid] = "Occupied"
             /\ Len(transactions') = Len(transactions) + 1]_vars

\* C5: removals of one drum are serializable: before any Reset, a drum has no more
\* OUT rows than IN rows in transactions, and as many drum_history rows as OUT rows
C5_NoLostUpdate ==
    resets = 0 =>
        \A d \in DrumIDs :
            /\ CountRows(transactions, d, "OUT") <= CountRows(transactions, d, "IN")
            /\ CountRows(drum_history, d, "OUT") = CountRows(transactions, d, "OUT")

\* C6: a handler that read the tables before a Reset writes nothing after it
C6_ResetExcludes ==
    [][\A s \in Sessions :
          (Acts(s) /\ frame[s].pc # "idle" /\ Written) => frame[s].epoch = resets]_vars

\* the drum a step of update_drum_out's first lines dealt with
Handled(s) ==
    IF frame'[s].pc = "out_write" THEN frame'[s].drum_id
    ELSE frame'[s].rets[Len(frame'[s].rets)].DrumID

\* C7: update_drum_out on a drum that does not exist or is OUT returns False and
\* goes on to write nothing
C7_RemoveNothingFails ==
    [][\A s \in Sessions :
          (/\ frame[s].pc = "out_get"
           /\ Acts(s)
           /\ (Handled(s) \notin DOMAIN drums \/ drums[Handled(s)].Status = "OUT"))
          => /\ frame'[s].pc # "out_write"
             /\ frame'[s].rets = Append(frame[s].rets, Ret(Handled(s), FALSE))
             /\ ~Written]_vars

\* C8: the write of a shift of drum d, IN on g1, to a grid g2 other than g1 sets
\* d's CurrentGrid to g2 and nothing else in drums, marks g2 'Occupied', frees g1
\* exactly if d was the only drum IN on it and leaves it 'Occupied' otherwise,
\* leaves the other grids and drum_history alone, appends one SHIFT row for d and
\* g2, and returns True
C8_ShiftEffect ==
    [][\A s \in Sessions :
          LET d == frame[s].drum_id
              g2 == frame[s].new_grid
          IN (/\ frame[s].pc = "shift_write"
              /\ Acts(s)
              /\ d \in DOMAIN drums
              /\ drums[d].Status = "IN"
              /\ drums[d].CurrentGrid \in DOMAIN grids
              /\ g2 \in DOMAIN grids
              /\ g2 # drums[d].CurrentGrid)
             => LET g1 == drums[d].CurrentGrid
                IN /\ drums' = [drums EXCEPT ![d].CurrentGrid = g2]
                   /\ DOMAIN grids' = DOMAIN grids
                   /\ grids'[g2] = "Occupied"
                   /\ grids'[g1] = IF get_drums_by_grid(DB, g1) = {d}
                                   THEN "Available" ELSE "Occupied"
                   /\ \A g \in DOMAIN grids \ {g1, g2} : grids'[g] = grids[g]
                   /\ Len(transactions') = Len(transactions) + 1
                   /\ SubSeq(transactions', 1, Len(transactions)) = transactions
                   /\ LET row == transactions'[Len(transactions')]
                      IN /\ row.DrumID = d
                         /\ row.GridID = g2
                         /\ row.Status = "SHIFT"
                         /\ row.TxnID > sqlite_sequence.transactions
                   /\ drum_history' = drum_history
                   /\ frame'[s].rets = Append(frame[s].rets, Ret(d, TRUE))]_vars

\* C8, reached: a shift has returned True, its drum is IN on the destination, which
\* is 'Occupied', and the grid the drum came from holds another drum and is
\* still 'Occupied'
C8_Witness ==
    \E s \in Sessions :
        /\ frame[s].pc = "done"
        /\ frame[s].op = "shift"
        /\ Len(transactions) >= 3
        /\ LET row == transactions[Len(transactions)]
           IN /\ row.Status = "SHIFT"
              /\ frame[s].rets = <<Ret(row.DrumID, TRUE)>>
              /\ row.GridID \in DOMAIN grids
              /\ grids[row.GridID] = "Occupied"
              /\ row.DrumID \in DOMAIN drums
              /\ drums[row.DrumID].CurrentGrid = row.GridID
              /\ drums[row.DrumID].Status = "IN"
              /\ \E g \in DOMAIN grids \ {row.GridID} :
                    /\ grids[g] = "Occupied"
                    /\ get_drums_by_grid(DB, g) # {}

\* C9: shift_drum_grid writes only for a drum that is IN and a destination that
\* is one of the grids, 'Available', and not the drum's own
C9_ShiftRejects ==
    [][\A s \in Sessions :
          (frame[s].pc = "shift_write" /\ Acts(s))
          => LET d == frame[s].drum_id
                 g2 == frame[s].new_grid
             IN /\ d \in DOMAIN drums
                /\ drums[d].Status = "IN"
                /\ g2 \in DOMAIN grids
                /\ grids[g2] = "Available"
                /\ g2 # drums[d].CurrentGrid]_vars

\* C10: update_drum_in writes only onto a grid that is 'Available' at that time
C10_PlaceRejects ==
    [][\A s \in Sessions :
          (frame[s].pc = "place_in" /\ Acts(s))
          => LET g == session_state[s].batch_in_grid
             IN g \in DOMAIN grids /\ grids[g] = "Available"]_vars

\* the last row of a log
LastRow(log) == log[Len(log)]

\* C11: a placement writes only for a form that is filled in; its first commit
\* logs nothing, and its second leaves the drum row with the form's four values,
\* Status 'IN' and the selected grid, that grid 'Occupied', and one more
\* transactions row (drum, grid, IN)
C11_PlaceEffect ==
    [][\A s \in Sessions :
          LET d == frame[s].drum_id
              m == frame[s].meta
              g == session_state[s].batch_in_grid
          IN /\ (frame[s].pc \in {"place_meta", "place_in"} /\ Acts(s))
                => ~FormIncomplete(d, m)
             /\ (frame[s].pc = "place_meta" /\ Acts(s))
                => /\ transactions' = transactions
                   /\ grids' = grids
             /\ (frame[s].pc = "place_in" /\ Acts(s))
                => /\ d \in DOMAIN drums'
                   /\ drums'[d] = [OrderNo |-> m.OrderNo, RA |-> m.RA,
                                   Quantity |-> m.Quantity, CellType |-> m.CellType,
                                   Status |-> "IN", CurrentGrid |-> g]
                   /\ \A e \in DOMAIN drums' \ {d} : e \in DOMAIN drums /\ drums'[e] = drums[e]
                   /\ g \in DOMAIN grids'
                   /\ grids'[g] = "Occupied"
                   /\ Len(transactions') = Len(transactions) + 1
                   /\ SubSeq(transactions', 1, Len(transactions)) = transactions
                   /\ LastRow(transactions').DrumID = d
                   /\ LastRow(transactions').GridID = g
                   /\ LastRow(transactions').Status = "IN"]_vars

\* C11, reached: a drum placed a second time is IN with the second form's values,
\* its IN row is the last of the log, and a form with an empty field has since
\* been turned down
C11_Witness ==
    \E s \in Sessions, d \in DOMAIN drums :
        /\ frame[s].pc = "done"
        /\ frame[s].op = "place"
        /\ frame[s].msg = "warning"
        /\ drums[d].Status = "IN"
        /\ drums[d].OrderNo = Meta(2).OrderNo
        /\ CountRows(transactions, d, "IN") >= 2
        /\ Len(transactions) >= 2
        /\ LastRow(transactions).DrumID = d
        /\ LastRow(transactions).Status = "IN"
        /\ LastRow(transactions).GridID = drums[d].CurrentGrid

\* the Status a handler's rows carry
LoggedAs(op) ==
    CASE op = "place" -> "IN"
      [] op \in {"remove", "remove_all"} -> "OUT"
      [] op \in {"shift", "shift_all"} -> "SHIFT"
      [] OTHER -> "none"

\* the step changes Status or CurrentGrid of drum d, or creates its row
Moves(d) ==
    /\ d \in DOMAIN drums'
    /\ \/ d \notin DOMAIN drums
       \/ drums'[d].Status # drums[d].Status
       \/ drums'[d].CurrentGrid # drums[d].CurrentGrid

\* C12: a commit of update_drum_in, update_drum_out or shift_drum_grid appends
\* exactly one transactions row, for the call's drum and with Status IN, OUT or
\* SHIFT; the first commit of a placement appends none and is followed by
\* update_drum_in in the same handler; every other step of a placement, removal
\* or shift, a call that returns False included, leaves all tables alone; and a
\* drum's Status or CurrentGrid changes only in such a commit for that drum
C12_OneRowPerChange ==
    [][\A s \in Sessions :
          (Acts(s) /\ frame[s].op # "reset" /\ frame'[s].op # "reset")
          => /\ frame[s].pc \in {"place_in", "out_write", "shift_write"}
                => /\ Len(transactions') = Len(transactions) + 1
                   /\ SubSeq(transactions', 1, Len(transactions)) = transactions
                   /\ LastRow(transactions').DrumID = frame[s].drum_id
                   /\ LastRow(transactions').Status = LoggedAs(frame[s].op)
             /\ frame[s].pc = "place_meta"
                => /\ transactions' = transactions
                   /\ frame'[s].pc = "place_in"
                   /\ frame'[s].drum_id = frame[s].drum_id
             /\ frame[s].pc \notin {"place_meta", "place_in", "out_write", "shift_write"}
                => ~Written
             /\ \A d \in DrumIDs :
                   Moves(d) => /\ frame[s].drum_id = d
                               /\ frame[s].pc \in {"place_meta", "place_in",
                                                   "out_write", "shift_write"}]_vars

\* C12, reached: a removal of a whole grid has returned after two calls, and the
\* last two rows of the log are the OUT rows of its two drums
C12_Witness ==
    \E s \in Sessions :
        /\ frame[s].pc = "done"
        /\ frame[s].op = "remove_all"
        /\ Len(frame[s].rets) = 2
        /\ \A i \in 1..2 : frame[s].rets[i].ok
        /\ Len(transactions) >= 4
        /\ LET a == transactions[Len(transactions) - 1]
               b == transactions[Len(transactions)]
           IN /\ a.Status = "OUT"
              /\ b.Status = "OUT"
              /\ a.DrumID # b.DrumID
              /\ {a.DrumID, b.DrumID} = {frame[s].rets[i].DrumID : i \in 1..2}

\* C13: the largest TxnID ever issued never decreases; a row that a step adds to
\* transactions has a TxnID above every one issued before the step, a Reset
\* included; and the rows of transactions carry strictly increasing TxnIDs in
\* the order of their commits
C13_TxnIDFresh ==
    [][/\ sqlite_sequence'.transactions >= sqlite_sequence.transactions
       /\ \A i \in 1..Len(transactions') :
             /\ transactions'[i].TxnID <= sqlite_sequence'.transactions
             /\ \/ i <= Len(transactions) /\ transactions'[i] = transactions[i]
                \/ transactions'[i].TxnID > sqlite_sequence.transactions
       /\ \A i, j \in 1..Len(transactions') :
             i < j => transactions'[i].TxnID < transactions'[j].TxnID]_vars

\* C13, reached: after a Reset that deleted a logged row, two sessions have each
\* logged a row, and the numbering went on from where it was
C13_Witness ==
    /\ resets = 1
    /\ Len(transactions) = 2
    /\ transactions[1].TxnID > 1
    /\ transactions[2].TxnID = transactions[1].TxnID + 1
    /\ transactions[1].DrumID # transactions[2].DrumID

\* C14: drum_history changes only in the write of update_drum_out (and in a
\* Reset), and that write, for a drum that has a row, appends one row: Status
\* 'OUT', and the grid and the four values that the drum's row holds in the
\* database at that write
C14_HistorySnapshot ==
    [][\A s \in Sessions :
          (Acts(s) /\ frame'[s].op # "reset")
          => IF frame[s].pc = "out_write"
             THEN LET d == frame[s].drum_id
                  IN d \in DOMAIN drums =>
                     /\ Len(drum_history') = Len(drum_history) + 1
                     /\ SubSeq(drum_history', 1, Len(drum_history)) = drum_history
                     /\ LastRow(drum_history').DrumID = d
                     /\ LastRow(drum_history').Status = "OUT"
                     /\ LastRow(drum_history').GridID = drums[d].CurrentGrid
                     /\ LastRow(drum_history').OrderNo = drums[d].OrderNo
                     /\ LastRow(drum_history').RA = drums[d].RA
                     /\ LastRow(drum_history').Quantity = drums[d].Quantity
                     /\ LastRow(drum_history').CellType = drums[d].CellType
             ELSE drum_history' = drum_history]_vars

\* C15: the reset handler runs only with the checkbox ticked, and its commit
\* leaves drums, transactions and drum_history empty and grids with exactly the
\* seeded rows, all 'Available'; no other step counts as a reset
C15_ResetGuarded ==
    [][/\ \A s \in Sessions :
             (Acts(s) /\ frame'[s].op = "reset")
             => /\ frame'[s].reset_confirm
                /\ resets' = resets + 1
                /\ drums' = << >>
                /\ transactions' = << >>
                /\ drum_history' = << >>
                /\ DOMAIN grids' = SeedGrids
                /\ \A g \in SeedGrids : grids'[g] = "Available"
       /\ resets' # resets => \E s \in Sessions : Acts(s) /\ frame'[s].op = "reset"]_vars

\* C15, reached: a Reset has just run with the checkbox ticked on a database
\* that had logged two rows, and the tables are empty and the grids free
C15_Witness ==
    \E s \in Sessions :
        /\ frame[s].pc = "done"
        /\ frame[s].op = "reset"
        /\ frame[s].reset_confirm
        /\ resets = 1
        /\ sqlite_sequence.transactions >= 2
        /\ drums = << >>
        /\ transactions = << >>
        /\ drum_history = << >>
        /\ \A g \in SeedGrids : grids[g] = "Available"

\* the session whose commit the step is, at the given place of its handler and
\* for drum d
CommitOf(pc, d) ==
    \E s \in Sessions : Acts(s) /\ frame[s].pc = pc /\ frame[s].drum_id = d

\* C16: a drum row is created OUT; a drum goes from OUT to IN only in
\* update_drum_in, from IN to OUT only in the write of update_drum_out, which
\* adds a drum_history row and an OUT row, and an IN drum changes grid only in
\* the write of shift_drum_grid
C16_Lifecycle ==
    [][\A d \in DOMAIN drums' :
          IF d \notin DOMAIN drums
          THEN drums'[d].Status = "OUT"
          ELSE /\ (drums[d].Status = "OUT" /\ drums'[d].Status = "IN")
                  => CommitOf("place_in", d)
               /\ (drums[d].Status = "IN" /\ drums'[d].Status = "OUT")
                  => /\ CommitOf("out_write", d)
                     /\ Len(drum_history') = Len(drum_history) + 1
                     /\ LastRow(drum_history').DrumID = d
                     /\ Len(transactions') = Len(transactions) + 1
                     /\ LastRow(transactions').DrumID = d
                     /\ LastRow(transactions').Status = "OUT"
               /\ (/\ drums[d].Status = "IN"
                   /\ drums'[d].Status = "IN"
                   /\ drums'[d].CurrentGrid # drums[d].CurrentGrid)
                  => CommitOf("shift_write", d)]_vars

\* C17: between completed operations a drum row that is OUT has OrderNo,
\* Quantity, RA and CellType all NULL
C17_OutIsPlaceholder ==
    Quiet => \A d \in DOMAIN drums :
                drums[d].Status = "OUT"
                => /\ drums[d].OrderNo = NULL
                   /\ drums[d].Quantity = NULL
                   /\ drums[d].RA = NULL
                   /\ drums[d].CellType = NULL

\* C17, reached: with no handler running, a drum is OUT with its four values
\* NULL, and drum_history holds the values it was removed with
C17_Witness ==
    /\ Quiet
    /\ \E d \in DOMAIN drums :
          /\ drums[d].Status = "OUT"
          /\ drums[d].OrderNo = NULL
          /\ \E i \in 1..Len(drum_history) :
                /\ drum_history[i].DrumID = d
                /\ drum_history[i].OrderNo \in {Meta(1).OrderNo, Meta(2).OrderNo}

\* the writes of a placement that nothing interrupts (qr_page, lines 353-358)
PlaceDrum(D, drum_id, m, grid_id) ==
    update_drum_in(IF get_drum(D, drum_id) = {}
                   THEN insert_drum(D, drum_id, m)
                   ELSE update_drum_info(D, drum_id, m),
                   drum_id, grid_id)

\* update_drum_out when nothing interrupts it
RemoveDrum(D, drum_id) ==
    IF NothingToMove(get_drum(D, drum_id))
    THEN D
    ELSE update_drum_out_tx(D, drum_id, Row0(get_drum(D, drum_id)))

C19_FixedGridSet ==
    /\ DOMAIN grids = SeedGrids
    /\ \A g \in DOMAIN grids : grids[g] \in {"Available", "Occupied"}
    /\ \A d \in DOMAIN drums : drums[d].CurrentGrid \in SeedGrids \cup {NULL}

\* C19, reached: after a Reset a drum has been placed and shifted, it is IN on
\* a seeded grid, and the grids are the seeded ones
C19_Witness ==
    /\ Quiet
    /\ resets = 1
    /\ DOMAIN grids = SeedGrids
    /\ Len(transactions) >= 2
    /\ LastRow(transactions).Status = "SHIFT"
    /\ \E d \in DOMAIN drums :
          /\ drums[d].Status = "IN"
          /\ drums[d].CurrentGrid \in SeedGrids
          /\ LastRow(transactions).DrumID = d
          /\ LastRow(transactions).GridID = drums[d].CurrentGrid

\* C20: in batch_shift_drums(g1, g2) with g2 a grid other than g1, each write
\* moves its drum to g2 and changes nothing else in drums, appends one SHIFT row
\* for the drum and g2, writes no drum_history row, leaves g2 'Occupied', and
\* leaves g1 'Occupied' while a drum is IN on it and 'Available' once none is;
\* when the loop ends every drum listed has been moved and none is left on g1
C20_BatchShiftEffect ==
    [][\A s \in Sessions :
          LET d == frame[s].drum_id
              g1 == frame[s].grid_id
              g2 == frame[s].new_grid
          IN (/\ frame[s].op = "shift_all"
              /\ frame[s].pc = "shift_write"
              /\ Acts(s)
              /\ g2 \in DOMAIN grids
              /\ g2 # g1)
             => /\ d \in DOMAIN drums
                /\ drums[d].Status = "IN"
                /\ drums[d].CurrentGrid = g1
                /\ drums' = [drums EXCEPT ![d].CurrentGrid = g2]
                /\ Len(transactions') = Len(transactions) + 1
                /\ SubSeq(transactions', 1, Len(transactions)) = transactions
                /\ LastRow(transactions').DrumID = d
                /\ LastRow(transactions').GridID = g2
                /\ LastRow(transactions').Status = "SHIFT"
                /\ drum_history' = drum_history
                /\ grids'[g2] = "Occupied"
                /\ grids'[g1] = IF InOnAfter(g1) = {} THEN "Available" ELSE "Occupied"
                /\ \A g \in DOMAIN grids \ {g1, g2} : grids'[g] = grids[g]
                /\ frame'[s].rets = Append(frame[s].rets, Ret(d, TRUE))
                /\ frame'[s].pc = "done"
                   => /\ InOnAfter(g1) = {}
                      /\ Len(frame'[s].rets) >= 2
                      /\ \A i \in 1..Len(frame'[s].rets) :
                            /\ frame'[s].rets[i].ok
                            /\ drums'[frame'[s].rets[i].DrumID].CurrentGrid = g2
                            /\ drums'[frame'[s].rets[i].DrumID].Status = "IN"]_vars

\* C20, reached: a shift of a whole grid has returned after moving two drums:
\* the last two rows of the log are their SHIFT rows to one grid, which is
\* 'Occupied' and holds both, and another grid is 'Available' and holds none
C20_Witness ==
    \E s \in Sessions :
        /\ frame[s].pc = "done"
        /\ frame[s].op = "shift_all"
        /\ Len(frame[s].rets) = 2
        /\ Len(transactions) >= 4
        /\ LET a == transactions[Len(transactions) - 1]
               b == transactions[Len(transactions)]
           IN /\ a.Status = "SHIFT"
              /\ b.Status = "SHIFT"
              /\ a.DrumID # b.DrumID
              /\ a.GridID = b.GridID
              /\ a.GridID \in DOMAIN grids
              /\ grids[a.GridID] = "Occupied"
              /\ get_drums_by_grid(DB, a.GridID) = {a.DrumID, b.DrumID}
              /\ \E g \in DOMAIN grids \ {a.GridID} :
                    /\ grids[g] = "Available"
                    /\ get_drums_by_grid(DB, g) = {}

\* C21: a removal or shift of a whole grid in which a call returned False does
\* not end with the success message
C21_BatchReportsFailure ==
    [][\A s \in Sessions :
          (/\ Acts(s)
           /\ frame'[s].pc = "done"
           /\ frame'[s].op \in {"remove_all", "shift_all"}
           /\ \E i \in 1..Len(frame'[s].rets) : ~frame'[s].rets[i].ok)
          => frame'[s].msg # "success"]_vars

\* the positions of drum d's rows in transactions
RowsOf(d) == {i \in 1..Len(transactions) : transactions[i].DrumID = d}

\* the row with the greatest TxnID among drum d's rows
LatestRow(d) ==
    transactions[CHOOSE i \in RowsOf(d) :
                    \A j \in RowsOf(d) : transactions[j].TxnID <= transactions[i].TxnID]

\* C22: between completed operations every drum row has a transactions row, and
\* the latest row of a drum is an IN or SHIFT row for the drum's CurrentGrid if
\* the drum is IN, and an OUT row if the drum is OUT
C22_LogReconstructs ==
    Quiet => \A d \in DOMAIN drums :
                /\ RowsOf(d) # {}
                /\ drums[d].Status = "IN"
                   => /\ LatestRow(d).Status \in {"IN", "SHIFT"}
                      /\ LatestRow(d).GridID = drums[d].CurrentGrid
                /\ drums[d].Status = "OUT"
                   => LatestRow(d).Status = "OUT"

IsOut(r) == r.Status = "OUT"

\* the i-th drum_history row and the i-th OUT row of transactions name the same
\* drum and grid, and there are as many of the one as of the other
Paired(history, log) ==
    LET outs == SelectSeq(log, IsOut)
    IN /\ Len(history) = Len(outs)
       /\ \A i \in 1..Len(history) :
             /\ history[i].DrumID = outs[i].DrumID
             /\ history[i].GridID = outs[i].GridID

\* log2 is log1 with rows added at its end
Extends(log2, log1) ==
    /\ Len(log2) >= Len(log1)
    /\ SubSeq(log2, 1, Len(log1)) = log1

\* C23: in every committed state drum_history and the OUT rows of transactions
\* pair up, drum by drum and grid by grid; a step either only adds rows to the
\* two tables or is a Reset, which empties both
C23_HistoryPaired ==
    [][/\ Paired(drum_history, transactions)
       /\ Paired(drum_history', transactions')
       /\ \/ /\ Extends(drum_history', drum_history)
             /\ Extends(transactions', transactions)
          \/ /\ resets' = resets + 1
             /\ drum_history' = << >>
             /\ transactions' = << >>]_vars

\* C23, reached: two removals of one drum that ran side by side have each
\* written a drum_history row and an OUT row
C23_Witness ==
    /\ Len(drum_history) = 2
    /\ drum_history[1].DrumID = drum_history[2].DrumID
    /\ Len(transactions) = 3
    /\ transactions[1].Status = "IN"
    /\ transactions[2].Status = "OUT"
    /\ transactions[3].Status = "OUT"

====
